---------------------------- MODULE Spec2Model ----------------------------
(***************************************************************************)
(* A model of eaton-epdu.py: the ePDU class (an interactive shell session  *)
(* to an Eaton ePDU over an SSH channel) and the command-line program      *)
(* main() that drives it.                                                  *)
(*                                                                         *)
(* Python str and bytes values are sequences of one-character strings.     *)
(* An optional value (None or a value) is a sequence of length 0 or 1.     *)
(* The result of a call that may raise is a record [exc, val]; exc is      *)
(* "none" when the call returned.                                          *)
(***************************************************************************)
EXTENDS Integers, Sequences, FiniteSets, TLC

(***************************************************************************)
(* Bounds of the model.                                                    *)
(***************************************************************************)
\* the longest --on / --off list main() is given
MaxBatch == 2
\* how many times the channel may deliver what is in flight in two pieces,
\* in a run of the command-line program and for a caller of the class
MaxSplits == 1
ApiSplits == 0
\* the longest first piece of a response delivered in two pieces
MaxHead == 1
\* how many method calls a caller of the ePDU class makes
MaxCalls == 3
\* the longest reply of the device the stripping is tried on
MaxPayload == 3

(***************************************************************************)
(* Program constants.                                                      *)
(***************************************************************************)
\* channel.recv(4096) in login()
PromptRecvSize == 4096
\* channel.recv(1024) in _send_command()
CmdRecvSize == 1024

CR == "\r"
LF == "\n"
\* a byte that is not valid UTF-8 on its own
BadByte == "0xFF"

Digits == {"0", "1", "2", "3", "4", "5", "6", "7", "8", "9"}
Upper ==
    {"A", "B", "C", "D", "E", "F", "G", "H", "I", "J", "K", "L", "M",
     "N", "O", "P", "Q", "R", "S", "T", "U", "V", "W", "X", "Y", "Z"}

SerialObj ==
    <<"P", "D", "U", ".", "P", "o", "w", "e", "r", "S", "u", "m", "m", "a", "r", "y", ".", "i", "S", "e", "r", "i", "a", "l", "N", "u", "m", "b", "e", "r">>
PartObj ==
    <<"P", "D", "U", ".", "P", "o", "w", "e", "r", "S", "u", "m", "m", "a", "r", "y", ".", "i", "P", "a", "r", "t", "N", "u", "m", "b", "e", "r">>
VersionObj ==
    <<"P", "D", "U", ".", "P", "o", "w", "e", "r", "S", "u", "m", "m", "a", "r", "y", ".", "i", "V", "e", "r", "s", "i", "o", "n">>
CountObj ==
    <<"P", "D", "U", ".", "O", "u", "t", "l", "e", "t", "S", "y", "s", "t", "e", "m", ".", "O", "u", "t", "l", "e", "t", ".", "C", "o", "u", "n", "t">>
\* objects with the part number asked for first
objects_part_first == <<PartObj, SerialObj, VersionObj, CountObj>>

\* the list `objects` of _get_info, in its order
objects == <<SerialObj, PartObj, VersionObj, CountObj>>

OutletPrefix ==
    <<"P", "D", "U", ".", "O", "u", "t", "l", "e", "t", "S", "y", "s", "t", "e", "m", ".", "O", "u", "t", "l", "e", "t", "[">>
StartupSuffix ==
    <<"]", ".", "D", "e", "l", "a", "y", "B", "e", "f", "o", "r", "e", "S", "t", "a", "r", "t", "u", "p">>
ShutdownSuffix ==
    <<"]", ".", "D", "e", "l", "a", "y", "B", "e", "f", "o", "r", "e", "S", "h", "u", "t", "d", "o", "w", "n">>
GetPrefix == <<"g", "e", "t", " ">>
SetPrefix == <<"s", "e", "t", " ">>
QuitCmd == <<"q", "u", "i", "t">>

EILB13 == <<"E", "I", "L", "B", "1", "3">>
EILB14 == <<"E", "I", "L", "B", "1", "4">>
EILB15 == <<"E", "I", "L", "B", "1", "5">>
EMIH28 == <<"E", "M", "I", "H", "2", "8">>
EMAB04 == <<"E", "M", "A", "B", "0", "4">>
\* the list `supported` of _is_part_number_ok
supported == {EILB13, EILB14, EILB15, EMIH28, EMAB04}

(***************************************************************************)
(* Pure functions of the program.                                          *)
(***************************************************************************)
Ok(v) == [exc |-> "none", val |-> v]
Raise(e) == [exc |-> e, val |-> <<>>]

Range(s) == {s[i] : i \in 1..Len(s)}

\* _is_part_number_ok taking a supported code at the start for the code
_is_part_number_ok_prefix(pn) ==
    \E code \in supported : Len(code) <= Len(pn) /\ SubSeq(pn, 1, Len(code)) = code

\* pn in supported
_is_part_number_ok(pn) == pn \in supported

\* re.match('[A-Z0-9]{10}', serial): anchored at the start only
_is_serial_ok(serial) ==
    /\ Len(serial) >= 10
    /\ \A i \in 1..10 : serial[i] \in Upper \cup Digits

\* re.match('[0-9]{2}.[0-9]{2}.[0-9]{4}', version): anchored at the start
\* only; the unescaped '.' matches any character but a newline
_is_version_ok(version) ==
    /\ Len(version) >= 10
    /\ \A i \in {1, 2, 4, 5, 7, 8, 9, 10} : version[i] \in Digits
    /\ \A i \in {3, 6} : version[i] # LF

\* bytes.strip(chars): drops the leading and the trailing bytes that are
\* members of the set of bytes of chars
StripLo(bs, chars) ==
    IF \A i \in 1..Len(bs) : bs[i] \in chars
    THEN Len(bs) + 1
    ELSE CHOOSE i \in 1..Len(bs) :
            /\ bs[i] \notin chars
            /\ \A j \in 1..(i - 1) : bs[j] \in chars
StripHi(bs, chars) ==
    IF \A i \in 1..Len(bs) : bs[i] \in chars
    THEN Len(bs)
    ELSE CHOOSE i \in 1..Len(bs) :
            /\ bs[i] \notin chars
            /\ \A j \in (i + 1)..Len(bs) : bs[j] \in chars
Strip(bs, chars) == SubSeq(bs, StripLo(bs, Range(chars)), StripHi(bs, Range(chars)))

\* str.replace(ch, ''): every occurrence of ch removed
Remove(s, ch) ==
    LET Other(c) == c # ch
    IN  SelectSeq(s, Other)

\* str(cmd + '\r').encode('utf-8'); the commands are ASCII, one byte a character
Encode(cmd) == cmd \o <<CR>>

\* bytes.decode('utf-8'): raises on a byte that is not valid UTF-8
Decode(bs) ==
    IF BadByte \in Range(bs) THEN Raise("UnicodeDecodeError") ELSE Ok(bs)

\* lines 111-112 of _send_command: the reply made of what recv returned
Reply(stdout, prompt, send) ==
    LET response == Strip(Strip(stdout, prompt), send)
        text == Decode(response)
    IN  IF text.exc # "none" THEN text
        ELSE Ok(Remove(Remove(text.val, CR), LF))

\* '{}'.format(n) of an int: its decimal digits, with a sign when negative
DigitChar(d) ==
    CASE d = 0 -> "0" [] d = 1 -> "1" [] d = 2 -> "2" [] d = 3 -> "3"
      [] d = 4 -> "4" [] d = 5 -> "5" [] d = 6 -> "6" [] d = 7 -> "7"
      [] d = 8 -> "8" [] d = 9 -> "9"
RECURSIVE NatStr(_)
NatStr(n) == IF n < 10 THEN <<DigitChar(n)>> ELSE NatStr(n \div 10) \o <<DigitChar(n % 10)>>
Format(n) == IF n < 0 THEN <<"-">> \o NatStr(-n) ELSE NatStr(n)

\* int(text) of a str: surrounding whitespace dropped, an optional sign, then
\* digits with single underscores allowed between them; ValueError otherwise
DigitVal(c) ==
    CASE c = "0" -> 0 [] c = "1" -> 1 [] c = "2" -> 2 [] c = "3" -> 3
      [] c = "4" -> 4 [] c = "5" -> 5 [] c = "6" -> 6 [] c = "7" -> 7
      [] c = "8" -> 8 [] c = "9" -> 9
RECURSIVE DigitsVal(_, _)
DigitsVal(s, acc) ==
    IF s = <<>> THEN acc
    ELSE IF Head(s) = "_" THEN DigitsVal(Tail(s), acc)
    ELSE DigitsVal(Tail(s), 10 * acc + DigitVal(Head(s)))
IsIntBody(s) ==
    /\ s # <<>>
    /\ \A i \in 1..Len(s) : s[i] \in Digits \cup {"_"}
    /\ s[1] # "_" /\ s[Len(s)] # "_"
    /\ \A i \in 1..(Len(s) - 1) : ~(s[i] = "_" /\ s[i + 1] = "_")
PyInt(text) ==
    LET t == Strip(text, <<" ", "\t", CR, LF>>)
        signed == t # <<>> /\ t[1] \in {"+", "-"}
        body == IF signed THEN Tail(t) ELSE t
    IN  IF ~IsIntBody(body) THEN Raise("ValueError")
        ELSE Ok(IF signed /\ t[1] = "-" THEN -DigitsVal(body, 0) ELSE DigitsVal(body, 0))

\* get_object / set_object / the outlet methods: the command each one sends
GetCommand(option) == GetPrefix \o option
SetCommand(option, val) == SetPrefix \o option \o <<" ">> \o val
\* turn_on_outlet naming the delay of turn_off_outlet
TurnOnOptionShutdown(outlet) == OutletPrefix \o Format(outlet) \o ShutdownSuffix

TurnOnOption(outlet) == OutletPrefix \o Format(outlet) \o StartupSuffix
TurnOffOption(outlet) == OutletPrefix \o Format(outlet) \o ShutdownSuffix

(***************************************************************************)
(* The device and the transport channel, as the program meets them: the    *)
(* shell prints a prompt when it starts, echoes each command line, prints  *)
(* its reply and prints its prompt again.  Bytes reach the program in      *)
(* pieces of any size.  Every byte carries the number of the command it    *)
(* answers (0 for the first prompt), which the program cannot see.         *)
(***************************************************************************)
Prompt0 == <<"p", "d", "u", "#", "0", ">">>
DevicePrompts == {Prompt0}

GoodSerial == <<"A", "B", "1", "2", "C", "D", "3", "4", "E", "F">>
GoodVersion == <<"0", "1", ".", "0", "2", ".", "2", "0", "2", "1">>
BadPart == <<"X", "X", "9", "9">>
Count24 == <<"2", "4">>

SerialPayloads == {GoodSerial, EILB13}
PartPayloads == {EILB13, GoodSerial, BadPart}
VersionPayloads == {GoodVersion, <<"a", "b", "c">>}
CountPayloads == {Count24, <<"0">>, <<"a", "b", "c">>, <<BadByte>>}

\* what the device may print in reply to a command line
DevicePayloads(line) ==
    CASE line = Encode(GetCommand(SerialObj)) -> SerialPayloads
      [] line = Encode(GetCommand(PartObj)) -> PartPayloads
      [] line = Encode(GetCommand(VersionObj)) -> VersionPayloads
      [] line = Encode(GetCommand(CountObj)) -> CountPayloads
      [] OTHER -> {<<>>}

\* the bytes of one exchange: the echo of the line, the reply, the prompt
DeviceResponse(line, payload, prompt) ==
    line \o <<LF>> \o payload \o <<CR, LF>> \o prompt

Tag(bs, n) == [i \in 1..Len(bs) |-> <<bs[i], n>>]
Bytes(tagged) == [i \in 1..Len(tagged) |-> tagged[i][1]]

\* the sizes of the piece the channel may deliver next of n bytes in flight
ChunkSizes(n, splitsLeft) ==
    {n} \cup (IF splitsLeft > 0 THEN {k \in 1..(n - 1) : k <= MaxHead} ELSE {})

(***************************************************************************)
(* State.                                                                  *)
(***************************************************************************)
VARIABLES
    \* the fields of the ePDU object
    _channel,       \* <<>> (None) or <<id>> of the channel
    _client,        \* <<>> (None) or <<id>> of the SSH client
    _logged_in,
    _prompt,        \* <<>> (None) or <<bytes>>
    _info,          \* <<>> (None) or <<params>>
    \* the program
    caller,         \* "cli": main() runs;  "api": a caller of the class
    pc,             \* where the program is
    args,           \* the parsed command line
    num,            \* the outlet of the current on/off request
    option,         \* _get_info: the position in `objects` of the loop
    params,         \* _get_info: the dict being filled
    send,           \* _send_command: the bytes written
    ctx,            \* _send_command: who called it
    exitStatus,     \* -1 while the process runs, then its exit status
    exc,            \* the exception that last left a method, or "none"
    result,         \* what the last method call returned
    calls,          \* the number of method calls made by the caller
    out,            \* what was printed
    \* the transport and the device
    conns,          \* the number of connections made so far
    openChannels,   \* the ids of the channels that are open
    openClients,    \* the ids of the SSH clients that are open
    devPrompt,      \* the prompt of the device's shell
    wire,           \* bytes the device sent, not yet delivered
    inbuf,          \* bytes delivered, not yet read by the program
    splitsLeft,     \* how many more times the channel may deliver a piece short
    sent,           \* every byte string written to a channel, in order
    answered,       \* how many of them the device has answered or dropped
    \* history
    lastPayload,    \* the reply the device printed last
    lastReply,      \* the last return of _send_command, with its bytes' tags
    validated,      \* _get_info returned normally on the current channel
    logins          \* how many times login() returned True

vars ==
    <<_channel, _client, _logged_in, _prompt, _info, caller, pc, args, num, option, params, send, ctx, exitStatus, exc, result, calls, out,
      conns, openChannels, openClients, devPrompt, wire, inbuf, splitsLeft, sent,
      answered, lastPayload, lastReply, validated, logins>>

(***************************************************************************)
(* Initial states.                                                         *)
(***************************************************************************)
NoArgs == [info |-> FALSE, on |-> <<>>, off |-> <<>>, moreOn |-> FALSE, moreOff |-> FALSE]
NoReply == [cmd |-> 0, exc |-> "none", text |-> <<>>, tags |-> {}]

\* ePDU.__init__ and the state of a process before it acts
InitObject ==
    /\ _channel = <<>> /\ _client = <<>> /\ _logged_in = FALSE
    /\ _prompt = <<>> /\ _info = <<>>
    /\ args = NoArgs /\ num = 0 /\ option = 1 /\ params = <<>>
    /\ send = <<>> /\ ctx = "none" /\ exitStatus = -1 /\ exc = "none"
    /\ result = "none" /\ calls = 0 /\ out = <<>>
    /\ conns = 0 /\ openChannels = {} /\ openClients = {}
    /\ devPrompt = <<>> /\ wire = <<>> /\ inbuf = <<>> 
    /\ sent = <<>> /\ answered = 0 /\ lastPayload = <<>>
    /\ lastReply = NoReply /\ validated = FALSE /\ logins = 0

\* the command-line program, before main() parses its arguments
Init == InitObject /\ caller = "cli" /\ pc = "start" /\ splitsLeft = MaxSplits

\* a caller that makes method calls on a fresh ePDU object
InitApi == InitObject /\ caller = "api" /\ pc = "api" /\ splitsLeft = ApiSplits

(***************************************************************************)
(* Control: how a method ends.                                             *)
(***************************************************************************)
Goto(p) == pc' = p /\ UNCHANGED <<exitStatus, exc, result>>

\* sys.exit(status)
Exit(status) == pc' = "exit" /\ exitStatus' = status /\ UNCHANGED <<exc, result>>

\* an exception leaves the method: main() catches only KeyboardInterrupt, so
\* the process dies with status 1; a caller of the class gets the exception
Propagate(e) ==
    /\ exc' = e
    /\ result' = "none"
    /\ IF caller = "cli"
       THEN pc' = "exit" /\ exitStatus' = 1
       ELSE pc' = "api" /\ exitStatus' = exitStatus

\* ReturnLogin with main() not looking at what login() returned
ReturnLoginUnchecked(v) ==
    /\ result' = v
    /\ exc' = exc
    /\ exitStatus' = exitStatus
    /\ pc' = IF caller = "cli" THEN "show_info" ELSE "api"

\* login() returns v; main(): if not pdu.login(): sys.exit(1)
ReturnLogin(v) ==
    /\ result' = v
    /\ exc' = exc
    /\ IF caller = "cli"
       THEN IF v = "True"
            THEN pc' = "show_info" /\ exitStatus' = exitStatus
            ELSE pc' = "exit" /\ exitStatus' = 1
       ELSE pc' = "api" /\ exitStatus' = exitStatus

\* a method that returns None returns; main() goes on at cliNext
Return(cliNext) ==
    /\ result' = "None"
    /\ exc' = exc
    /\ exitStatus' = exitStatus
    /\ pc' = IF caller = "cli" THEN cliNext ELSE "api"

(***************************************************************************)
(* _send_command, up to its wait for data.                                 *)
(***************************************************************************)
\* lines 103-106: the command is encoded and written to self._channel
SendCommand(cmd, who) ==
    IF _channel = <<>>
    THEN Propagate("AttributeError") /\ UNCHANGED <<send, ctx, sent>>
    ELSE IF _channel[1] \notin openChannels
    THEN Propagate("OSError") /\ UNCHANGED <<send, ctx, sent>>
    ELSE /\ send' = Encode(cmd)
         /\ ctx' = who
         /\ sent' = Append(sent, [line |-> Encode(cmd), validated |-> validated,
                                  channel |-> _channel[1]])
         /\ Goto("recv")

\* channel.recv(n): at most n of the bytes that are there
Recv(n) == IF Len(inbuf) <= n THEN Len(inbuf) ELSE n

StripTagged(t, chars) ==
    SubSeq(t, StripLo(Bytes(t), Range(chars)), StripHi(Bytes(t), Range(chars)))

\* the command numbers of the bytes that make the reply
ReplyTags(stdout, prompt, cmdline) ==
    LET kept == StripTagged(StripTagged(stdout, prompt), cmdline)
    IN  {kept[i][2] : i \in {j \in 1..Len(kept) : kept[j][1] \notin {CR, LF}}}

(***************************************************************************)
(* _get_info: the validations.                                             *)
(***************************************************************************)
\* a Python value used as a subscript, with its type
Str(s) == [type |-> "str", val |-> s]

\* list[key]: a list takes integer indices (from 0), and a str raises TypeError
ListItem(list, key) ==
    IF key.type # "int" THEN Raise("TypeError")
    ELSE IF key.val \in 0..(Len(list) - 1) THEN Ok(list[key.val + 1])
    ELSE Raise("IndexError")

\* raise ePDUException(msg + str(objects[key])): the argument is evaluated first
RaiseValidation(msg, key) ==
    LET item == ListItem(objects, key)
    IN  IF item.exc # "none" THEN item
        ELSE [exc |-> "ePDUException", val |-> <<msg, item.val>>]

\* Validate without its last check
ValidateSkipsPartNumber(p) ==
    IF ~_is_version_ok(p[VersionObj])
    THEN RaiseValidation("Validation Error: FW version ", Str(VersionObj))
    ELSE IF ~_is_serial_ok(p[SerialObj])
    THEN RaiseValidation("Validation Error: Serial Number ", Str(SerialObj))
    ELSE Ok(p)

\* lines 127-140
Validate(p) ==
    IF ~_is_version_ok(p[VersionObj])
    THEN RaiseValidation("Validation Error: FW version ", Str(VersionObj))
    ELSE IF ~_is_serial_ok(p[SerialObj])
    THEN RaiseValidation("Validation Error: Serial Number ", Str(SerialObj))
    ELSE IF ~_is_part_number_ok(p[PartObj])
    THEN RaiseValidation("Validation Error: Part Number ", Str(PartObj))
    ELSE Ok(p)

\* number_of_outlets reading another key of the dict
number_of_outlets_of_serial ==
    IF _info = <<>> THEN Raise("TypeError") ELSE PyInt(_info[1][SerialObj])

\* number_of_outlets(): int(self._info[...]); None is not subscriptable
number_of_outlets ==
    IF _info = <<>> THEN Raise("TypeError") ELSE PyInt(_info[1][CountObj])

(***************************************************************************)
(* The program's steps.                                                    *)
(***************************************************************************)
\* the outlet numbers a command line names
OutletArgs == {0, 1, 24, 25}

\* the command lines: --info, --on and --off given or not.  The numbers of
\* a list are drawn when main() comes to them (moreOn, moreOff: there are
\* numbers it has not come to yet); at most MaxBatch numbers are given
ArgSets ==
    [info : BOOLEAN, on : {<<>>}, off : {<<>>}, moreOn : BOOLEAN, moreOff : BOOLEAN]

ConnectErrors == {"timeout", "badhostkey", "auth", "ssh"}
ConnectOutcomes == {"ok", "refused"} \cup ConnectErrors

\* MainParse without the test of line 187
MainParseAlwaysLogin ==
    /\ caller = "cli" /\ pc = "start"
    /\ \E a \in ArgSets :
        /\ args' = a
        /\ Goto("login")
    /\ UNCHANGED <<_channel, _client, _logged_in, _prompt, _info, caller, num,
                   option, params, send, ctx, calls, out, conns, openChannels,
                   openClients, devPrompt, wire, inbuf, splitsLeft, sent,
                   answered, lastPayload, lastReply, validated, logins>>

\* main(), lines 185-190: the arguments are parsed; with nothing to do the
\* process exits, else the ePDU object is made and login() called
MainParse ==
    /\ caller = "cli" /\ pc = "start"
    /\ \E a \in ArgSets :
        /\ args' = a
        /\ IF ~a.moreOn /\ ~a.moreOff /\ ~a.info THEN Exit(0) ELSE Goto("login")
    /\ UNCHANGED <<_channel, _client, _logged_in, _prompt, _info, caller, num, option, params, send, ctx, calls, out, conns,
                   openChannels, openClients, devPrompt, wire, inbuf, splitsLeft,
                   sent, answered, lastPayload, lastReply, validated, logins>>

\* login(), lines 60-82: the connection; on success the shell is requested
\* and the device's shell prints its prompt
LoginConnect ==
    /\ pc = "login"
    /\ \E outcome \in ConnectOutcomes :
        IF outcome = "ok"
        THEN /\ conns' = conns + 1
             /\ openClients' = openClients \cup {conns + 1}
             /\ openChannels' = openChannels \cup {conns + 1}
             /\ \E p \in DevicePrompts : devPrompt' = p /\ wire' = Tag(p, 0)
             /\ inbuf' = <<>>
             /\ answered' = Len(sent)
             /\ lastPayload' = lastPayload
             /\ out' = out
             /\ Goto("wait_prompt")
        ELSE IF outcome \in ConnectErrors
        THEN /\ out' = Append(out, <<"connect failed", outcome>>)
             /\ ReturnLogin("False")
             /\ UNCHANGED <<conns, openClients, openChannels, devPrompt, wire,
                            inbuf, answered, lastPayload>>
        ELSE /\ Propagate("OSError")
             /\ UNCHANGED <<out, conns, openClients, openChannels, devPrompt,
                            wire, inbuf, answered, lastPayload>>
    /\ UNCHANGED <<_channel, _client, _logged_in, _prompt, _info, caller, args,
                   num, option, params, send, ctx, calls, splitsLeft, sent,
                   lastReply, validated, logins>>

\* login() with line 88 before line 87: logged in before _get_info() ran
LoginRecvPromptLoggedInEarly ==
    /\ pc = "wait_prompt"
    /\ inbuf # <<>>
    /\ _client' = <<conns>>
    /\ _channel' = <<conns>>
    /\ _prompt' = <<Bytes(SubSeq(inbuf, 1, Recv(PromptRecvSize)))>>
    /\ inbuf' = SubSeq(inbuf, Recv(PromptRecvSize) + 1, Len(inbuf))
    /\ validated' = FALSE
    /\ params' = <<>>
    /\ option' = 1
    /\ _logged_in' = TRUE
    /\ Goto("get_info")
    /\ UNCHANGED <<_info, caller, args, num, send, ctx, calls,
                   out, conns, openChannels, openClients, devPrompt, wire,
                   splitsLeft, sent, answered, lastPayload, lastReply, logins>>

\* login(), lines 81-87: once data is there the first read is kept as the
\* prompt, and _get_info() starts
LoginRecvPrompt ==
    /\ pc = "wait_prompt"
    /\ inbuf # <<>>
    /\ _client' = <<conns>>
    /\ _channel' = <<conns>>
    /\ _prompt' = <<Bytes(SubSeq(inbuf, 1, Recv(PromptRecvSize)))>>
    /\ inbuf' = SubSeq(inbuf, Recv(PromptRecvSize) + 1, Len(inbuf))
    /\ validated' = FALSE
    /\ params' = <<>>
    /\ option' = 1
    /\ Goto("get_info")
    /\ UNCHANGED <<_logged_in, _info, caller, args, num, send, ctx, calls,
                   out, conns, openChannels, openClients, devPrompt, wire,
                   splitsLeft, sent, answered, lastPayload, lastReply, logins>>

\* _get_info(), lines 124-125, and get_object(): the next object is asked for
GetInfoSend ==
    /\ pc = "get_info"
    /\ SendCommand(GetCommand(objects[option]), "get_info")
    /\ UNCHANGED <<_channel, _client, _logged_in, _prompt, _info, caller, args,
                   num, option, params, calls, out, conns, openChannels,
                   openClients, devPrompt, wire, inbuf, splitsLeft, answered,
                   lastPayload, lastReply, validated, logins>>

\* _send_command(), lines 107-114: once data is there, one read, and the
\* reply is made of it and returned to who called
SendCommandRecv ==
    /\ pc = "recv"
    /\ inbuf # <<>>
    /\ LET stdout == SubSeq(inbuf, 1, Recv(CmdRecvSize))
           reply == Reply(Bytes(stdout), _prompt[1], send)
       IN  /\ inbuf' = SubSeq(inbuf, Recv(CmdRecvSize) + 1, Len(inbuf))
           /\ lastReply' = [cmd |-> Len(sent), exc |-> reply.exc, text |-> reply.val,
                            tags |-> ReplyTags(stdout, _prompt[1], send)]
           /\ IF reply.exc # "none"
              THEN Propagate(reply.exc) /\ UNCHANGED <<params, option>>
              ELSE IF ctx = "get_info"
              THEN /\ params' = [o \in DOMAIN params \cup {objects[option]} |->
                                    IF o = objects[option] THEN reply.val ELSE params[o]]
                   /\ option' = option + 1
                   /\ Goto(IF option = Len(objects) THEN "validate" ELSE "get_info")
              ELSE /\ UNCHANGED <<params, option>>
                   /\ IF ctx = "quit" THEN Goto("logout_close")
                      ELSE IF ctx = "turn_on" THEN Return("on_loop")
                      ELSE Return("off_loop")
    /\ UNCHANGED <<_channel, _client, _logged_in, _prompt, _info, caller, args,
                   num, send, ctx, calls, out, conns, openChannels,
                   openClients, devPrompt, wire, splitsLeft, sent, answered,
                   lastPayload, validated, logins>>

\* _get_info(), lines 127-140, and login(), lines 87-90
GetInfoValidate ==
    /\ pc = "validate"
    /\ LET v == Validate(params)
       IN  IF v.exc # "none"
           THEN /\ Propagate(v.exc)
                /\ UNCHANGED <<_info, _logged_in, validated, logins>>
           ELSE /\ _info' = <<v.val>>
                /\ _logged_in' = TRUE
                /\ validated' = TRUE
                /\ logins' = logins + 1
                /\ ReturnLogin("True")
    /\ UNCHANGED <<_channel, _client, _prompt, caller, args, num, option,
                   params, send, ctx, calls, out, conns, openChannels,
                   openClients, devPrompt, wire, inbuf, splitsLeft, sent, answered,
                   lastPayload, lastReply>>

\* show_information(): one line for each key of self._info
show_information ==
    IF _info = <<>> THEN Raise("TypeError")
    ELSE Ok([i \in 1..Len(objects) |-> <<"info", objects[i], _info[1][objects[i]]>>])

\* main(), lines 195-196
MainShowInfo ==
    /\ caller = "cli" /\ pc = "show_info"
    /\ out' = IF args.info THEN out \o show_information.val ELSE out
    /\ Goto("on_loop")
    /\ UNCHANGED <<_channel, _client, _logged_in, _prompt, _info, caller, args,
                   num, option, params, send, ctx, calls, conns, openChannels,
                   openClients, devPrompt, wire, inbuf, splitsLeft, sent, answered,
                   lastPayload, lastReply, validated, logins>>

\* MainLoopBody with the upper end of the range off by one
MainLoopBodyOffByOne(n, method) ==
    IF n < 1
    THEN /\ out' = Append(out, <<"No such outlet: {}", n>>)
         /\ Goto(pc)
         /\ num' = num
    ELSE IF number_of_outlets.exc # "none"
    THEN Propagate(number_of_outlets.exc) /\ UNCHANGED <<num, out>>
    ELSE IF n >= number_of_outlets.val
    THEN /\ out' = Append(out, <<"No such outlet: {}", n>>)
         /\ Goto(pc)
         /\ num' = num
    ELSE /\ num' = n
         /\ Goto(method)
         /\ out' = out

\* MainLoopBody calling the method of the other loop
MainLoopBodyCrossed(n, method) ==
    IF n < 1
    THEN /\ out' = Append(out, <<"No such outlet: {}", n>>)
         /\ Goto(pc)
         /\ num' = num
    ELSE IF number_of_outlets.exc # "none"
    THEN Propagate(number_of_outlets.exc) /\ UNCHANGED <<num, out>>
    ELSE IF n > number_of_outlets.val
    THEN /\ out' = Append(out, <<"No such outlet: {}", n>>)
         /\ Goto(pc)
         /\ num' = num
    ELSE /\ num' = n
         /\ Goto(IF method = "turn_on" THEN "turn_off" ELSE "turn_on")
         /\ out' = out

\* the body of a loop of main() for the number n (lines 200-203 and
\* 207-210): the range check, then the warning or the call of the method
MainLoopBody(n, method) ==
    IF n < 1
    THEN /\ out' = Append(out, <<"No such outlet: {}", n>>)
         /\ Goto(pc)
         /\ num' = num
    ELSE IF number_of_outlets.exc # "none"
    THEN Propagate(number_of_outlets.exc) /\ UNCHANGED <<num, out>>
    ELSE IF n > number_of_outlets.val
    THEN /\ out' = Append(out, <<"No such outlet: {}", n>>)
         /\ Goto(pc)
         /\ num' = num
    ELSE /\ num' = n
         /\ Goto(method)
         /\ out' = out

\* how many numbers the command line may still name
BatchLeft == MaxBatch - Len(args.on) - Len(args.off)

\* main(), lines 198-203: one turn of the loop over args.on, or its end
MainOnStep ==
    /\ caller = "cli" /\ pc = "on_loop"
    /\ IF ~args.moreOn
       THEN Goto("off_loop") /\ UNCHANGED <<args, num, out>>
       ELSE \E n \in OutletArgs,
               more \in {m \in BOOLEAN : m => BatchLeft > (IF args.moreOff THEN 2 ELSE 1)} :
              /\ args' = [args EXCEPT !.on = Append(@, n), !.moreOn = more]
              /\ MainLoopBody(n, "turn_on")
    /\ UNCHANGED <<_channel, _client, _logged_in, _prompt, _info, caller, option, params, send, ctx, calls, conns, openChannels,
                   openClients, devPrompt, wire, inbuf, splitsLeft, sent, answered,
                   lastPayload, lastReply, validated, logins>>

\* main(), lines 205-210: one turn of the loop over args.off, or its end
MainOffStep ==
    /\ caller = "cli" /\ pc = "off_loop"
    /\ IF ~args.moreOff
       THEN Goto("logout") /\ UNCHANGED <<args, num, out>>
       ELSE \E n \in OutletArgs, more \in {m \in BOOLEAN : m => BatchLeft > 1} :
              /\ args' = [args EXCEPT !.off = Append(@, n), !.moreOff = more]
              /\ MainLoopBody(n, "turn_off")
    /\ UNCHANGED <<_channel, _client, _logged_in, _prompt, _info, caller, option, params, send, ctx, calls, conns, openChannels,
                   openClients, devPrompt, wire, inbuf, splitsLeft, sent, answered,
                   lastPayload, lastReply, validated, logins>>

\* turn_on_outlet(num), lines 158-162, and set_object()
TurnOnOutlet ==
    /\ pc = "turn_on"
    /\ SendCommand(SetCommand(TurnOnOption(num), <<"0">>), "turn_on")
    /\ UNCHANGED <<_channel, _client, _logged_in, _prompt, _info, caller, args,
                   num, option, params, calls, out, conns, openChannels,
                   openClients, devPrompt, wire, inbuf, splitsLeft, answered,
                   lastPayload, lastReply, validated, logins>>

\* turn_off_outlet(num), lines 164-167, and set_object()
TurnOffOutlet ==
    /\ pc = "turn_off"
    /\ SendCommand(SetCommand(TurnOffOption(num), <<"0">>), "turn_off")
    /\ UNCHANGED <<_channel, _client, _logged_in, _prompt, _info, caller, args,
                   num, option, params, calls, out, conns, openChannels,
                   openClients, devPrompt, wire, inbuf, splitsLeft, answered,
                   lastPayload, lastReply, validated, logins>>

\* Logout without its guard
LogoutUnguarded ==
    /\ pc = "logout"
    /\ _logged_in' = FALSE
    /\ SendCommand(QuitCmd, "quit")
    /\ out' = out
    /\ UNCHANGED <<_channel, _client, _prompt, _info, caller, args, num,
                   option, params, calls, conns, openChannels, openClients,
                   devPrompt, wire, inbuf, splitsLeft, answered, lastPayload,
                   lastReply, validated, logins>>

\* logout(), lines 93-95 and 98-99; main() exits with 0 when it returns
Logout ==
    /\ pc = "logout"
    /\ IF _logged_in
       THEN /\ _logged_in' = FALSE
            /\ SendCommand(QuitCmd, "quit")
            /\ out' = out
       ELSE /\ out' = Append(out, <<"Not logged in.">>)
            /\ _logged_in' = _logged_in
            /\ IF caller = "cli" THEN Exit(0) ELSE Return("exit")
            /\ UNCHANGED <<send, ctx, sent>>
    /\ UNCHANGED <<_channel, _client, _prompt, _info, caller, args, num,
                   option, params, calls, conns, openChannels, openClients,
                   devPrompt, wire, inbuf, splitsLeft, answered, lastPayload,
                   lastReply, validated, logins>>

\* logout(), lines 96-97; main() exits with 0 when it returns
LogoutClose ==
    /\ pc = "logout_close"
    /\ openChannels' = openChannels \ {_channel[1]}
    /\ openClients' = openClients \ {_client[1]}
    /\ IF caller = "cli" THEN Exit(0) ELSE Return("exit")
    /\ UNCHANGED <<_channel, _client, _logged_in, _prompt, _info, caller, args,
                   num, option, params, send, ctx, calls, out, conns,
                   devPrompt, wire, inbuf, splitsLeft, sent, answered, lastPayload,
                   lastReply, validated, logins>>

\* the outlet numbers a caller passes to turn_on_outlet / turn_off_outlet
ApiOutlets == {-1, 0, 1, 25}

\* a caller of the class calls one of its public methods
Methods == {"login", "logout", "turn_on", "turn_off", "number_of_outlets"}
ApiCall ==
    /\ caller = "api" /\ pc = "api"
    /\ calls < MaxCalls
    /\ calls' = calls + 1
    /\ exitStatus' = exitStatus
    /\ \E m \in Methods, n \in ApiOutlets :
        IF m = "number_of_outlets"
        THEN /\ pc' = "api"
             /\ exc' = number_of_outlets.exc
             /\ result' = IF number_of_outlets.exc = "none" THEN "int" ELSE "none"
             /\ num' = num
        ELSE /\ pc' = m
             /\ exc' = "none"
             /\ result' = "none"
             /\ num' = IF m \in {"turn_on", "turn_off"} THEN n ELSE num
    /\ UNCHANGED <<_channel, _client, _logged_in, _prompt, _info, caller, args,
                   option, params, send, ctx, out, conns, openChannels,
                   openClients, devPrompt, wire, inbuf, splitsLeft, sent, answered,
                   lastPayload, lastReply, validated, logins>>

(***************************************************************************)
(* The device and the channel.                                             *)
(***************************************************************************)
ChannelLive == conns \in openChannels /\ pc # "exit"

\* the device's shell answers the oldest command line it has not answered
DeviceAnswer(payloadsOf) ==
    LET line == sent[answered + 1].line
    IN  \E payload \in payloadsOf :
          /\ wire' = wire \o Tag(DeviceResponse(line, payload, devPrompt), answered + 1)
          /\ lastPayload' = payload
          /\ answered' = answered + 1

DeviceRespond ==
    /\ ChannelLive
    /\ answered < Len(sent)
    /\ sent[answered + 1].line # Encode(QuitCmd)
    /\ DeviceAnswer(DevicePayloads(sent[answered + 1].line))
    /\ UNCHANGED <<_channel, _client, _logged_in, _prompt, _info, caller, pc,
                   args, num, option, params, send, ctx, exitStatus, exc,
                   result, calls, out, conns, openChannels, openClients,
                   devPrompt, inbuf, splitsLeft, sent, lastReply, validated, logins>>

\* the device's shell answers `quit`; it may as well end the session silently
DeviceRespondQuit ==
    /\ ChannelLive
    /\ answered < Len(sent)
    /\ sent[answered + 1].line = Encode(QuitCmd)
    /\ DeviceAnswer({<<>>})
    /\ UNCHANGED <<_channel, _client, _logged_in, _prompt, _info, caller, pc,
                   args, num, option, params, send, ctx, exitStatus, exc,
                   result, calls, out, conns, openChannels, openClients,
                   devPrompt, inbuf, splitsLeft, sent, lastReply, validated, logins>>

\* the channel delivers the next piece of what the device sent
Deliver ==
    /\ ChannelLive
    /\ wire # <<>>
    /\ \E k \in ChunkSizes(Len(wire), splitsLeft) :
        /\ inbuf' = inbuf \o SubSeq(wire, 1, k)
        /\ wire' = SubSeq(wire, k + 1, Len(wire))
        /\ splitsLeft' = IF k < Len(wire) THEN splitsLeft - 1 ELSE splitsLeft
    /\ UNCHANGED <<_channel, _client, _logged_in, _prompt, _info, caller, pc,
                   args, num, option, params, send, ctx, exitStatus, exc,
                   result, calls, out, conns, openChannels, openClients,
                   devPrompt, sent, answered, lastPayload, lastReply, validated,
                   logins>>

(***************************************************************************)
(* Specifications.                                                         *)
(***************************************************************************)
Method ==
    \/ LoginConnect \/ LoginRecvPrompt \/ GetInfoSend \/ SendCommandRecv
    \/ GetInfoValidate \/ TurnOnOutlet \/ TurnOffOutlet \/ Logout \/ LogoutClose
Main == MainParse \/ MainShowInfo \/ MainOnStep \/ MainOffStep
Device == DeviceRespond \/ DeviceRespondQuit \/ Deliver

\* the command-line program with its device
Next == Main \/ Method \/ Device
Spec == Init /\ [][Next]_vars

\* any caller of the class with its device
NextApi == ApiCall \/ Method \/ Device
SpecApi == InitApi /\ [][NextApi]_vars

\* the command-line program, with a device that answers every command but
\* `quit` and a channel that delivers what the device sent; the program
\* takes its next step whenever it can
SpecFair ==
    /\ Init /\ [][Next]_vars
    /\ WF_vars(Main \/ Method)
    /\ WF_vars(DeviceRespond)
    /\ WF_vars(Deliver)

(***************************************************************************)
(* The stripping of _send_command on its own: a session that has written   *)
(* the command c and whose channel holds, whole, the echo of c, a reply    *)
(* and the prompt.                                                         *)
(***************************************************************************)
StripPrompts == {Prompt0, <<">">>}
StripCommands == {QuitCmd, GetCommand(CountObj), SetCommand(TurnOnOption(1), <<"0">>)}
StripAlphabet == {"0", "1", "t", CR, LF}
RECURSIVE StringsUpTo(_)
StringsUpTo(n) ==
    IF n = 0 THEN {<<>>}
    ELSE StringsUpTo(n - 1) \cup
         {Append(s, c) : s \in {t \in StringsUpTo(n - 1) : Len(t) = n - 1}, c \in StripAlphabet}
StripPayloads == StringsUpTo(MaxPayload)

GoodIdentity ==
    [o \in Range(objects) |->
        CASE o = SerialObj -> GoodSerial
          [] o = PartObj -> EILB13
          [] o = VersionObj -> GoodVersion
          [] OTHER -> Count24]

InitStrip ==
    \E p \in StripPrompts, c \in StripCommands, payload \in StripPayloads :
        /\ _channel = <<1>> /\ _client = <<1>> /\ _logged_in = TRUE
        /\ _prompt = <<p>> /\ _info = <<GoodIdentity>>
        /\ caller = "api" /\ pc = "recv" /\ calls = MaxCalls
        /\ args = NoArgs /\ num = 1 /\ option = Len(objects) + 1
        /\ params = GoodIdentity
        /\ send = Encode(c) /\ ctx = "turn_on" /\ exitStatus = -1 /\ exc = "none"
        /\ result = "none" /\ out = <<>>
        /\ conns = 1 /\ openChannels = {1} /\ openClients = {1}
        /\ devPrompt = p /\ wire = <<>> /\ splitsLeft = 0
        /\ inbuf = Tag(Encode(c) \o payload \o p, 1)
        /\ sent = <<[line |-> Encode(c), validated |-> TRUE, channel |-> 1]>>
        /\ answered = 1 /\ lastPayload = payload
        /\ lastReply = NoReply /\ validated = TRUE /\ logins = 1
NextStrip == SendCommandRecv
SpecStrip == InitStrip /\ [][NextStrip]_vars

(***************************************************************************)
(* What the claims speak of.                                               *)
(***************************************************************************)
IsPrefix(p, s) == Len(p) <= Len(s) /\ SubSeq(s, 1, Len(p)) = p
Contains(s, sub) ==
    \E i \in 1..(Len(s) - Len(sub) + 1) : SubSeq(s, i, i + Len(sub) - 1) = sub
NotCRLF(c) == c \notin {CR, LF}
WithoutCRLF(s) == SelectSeq(s, NotCRLF)

IsSetEntry(e) == IsPrefix(SetPrefix, e.line)
IsQuitEntry(e) == e.line = <<"q", "u", "i", "t", CR>>
LinesOf(entries) == [i \in 1..Len(entries) |-> entries[i].line]
SetLinesSent == LinesOf(SelectSeq(sent, IsSetEntry))
QuitsSent == Len(SelectSeq(sent, IsQuitEntry))

AllValid(p) ==
    /\ _is_version_ok(p[VersionObj])
    /\ _is_serial_ok(p[SerialObj])
    /\ _is_part_number_ok(p[PartObj])

\* identity discovery has got its four replies and has validated them
Discovered == option = Len(objects) + 1 /\ pc # "validate" /\ DOMAIN params = Range(objects)

\* C1: every reply _send_command returns is made only of bytes the device
\* sent in answer to the command of that call.
C1_NoCrossTalk == lastReply.tags \subseteq {lastReply.cmd}

\* C2: when the reply of the device holds neither the prompt nor the command
\* as a run of bytes, what _send_command returns for the echo, that reply and
\* the prompt is the reply without its CR and LF.
C2_StripKeepsPayload ==
    (/\ pc = "api"
     /\ ~Contains(lastPayload, _prompt[1])
     /\ ~Contains(lastPayload, SubSeq(send, 1, Len(send) - 1)))
        => (lastReply.exc = "none" /\ lastReply.text = WithoutCRLF(lastPayload))

\* C3: when a validator fails, what leaves identity discovery is an
\* ePDUException.
C3_ValidationRaisesEPDUException ==
    (Discovered /\ ~AllValid(params)) => exc = "ePDUException"

\* C4: a set command is written only on a session whose identity passed the
\* three validators, and none is written once a validation has failed.
C4_SetOnlyWhenValidated ==
    /\ \A i \in 1..Len(sent) :
          IsSetEntry(sent[i]) =>
              /\ sent[i].validated
              /\ _info # <<>>
              /\ AllValid(_info[1])
              /\ <<sent[i].channel>> = _channel
    /\ (Discovered /\ ~AllValid(params)) => (pc = "exit" /\ SetLinesSent = <<>>)
C4_Witness ==
    /\ Len(SetLinesSent) = 2
    /\ pc = "exit"

\* C5, as claimed: replies EILB13, AB12CD34EF, 01.02.2021, 24 to the four
\* queries in the order they are sent make discovery succeed with 24 outlets.
ClaimedReplies ==
    [o \in Range(objects) |->
        CASE o = SerialObj -> <<"E", "I", "L", "B", "1", "3">>
          [] o = PartObj -> <<"A", "B", "1", "2", "C", "D", "3", "4", "E", "F">>
          [] o = VersionObj -> <<"0", "1", ".", "0", "2", ".", "2", "0", "2", "1">>
          [] OTHER -> <<"2", "4">>]
AmendedReplies ==
    [o \in Range(objects) |->
        CASE o = SerialObj -> <<"A", "B", "1", "2", "C", "D", "3", "4", "E", "F">>
          [] o = PartObj -> <<"E", "I", "L", "B", "1", "3">>
          [] o = VersionObj -> <<"0", "1", ".", "0", "2", ".", "2", "0", "2", "1">>
          [] OTHER -> <<"2", "4">>]
InRange(n) == 1 <= n /\ n <= number_of_outlets.val
OutOfRange(n) == ~InRange(n)
OnLine(n) == SetPrefix \o OutletPrefix \o Format(n) \o StartupSuffix \o <<" ", "0", CR>>
OffLine(n) == SetPrefix \o OutletPrefix \o Format(n) \o ShutdownSuffix \o <<" ", "0", CR>>
\* the numbers of a list whose turn of the loop is over
Processed(given, method) ==
    IF pc = method THEN SubSeq(given, 1, Len(given) - 1) ELSE given
OnLines ==
    LET s == SelectSeq(Processed(args.on, "turn_on"), InRange)
    IN  [i \in 1..Len(s) |-> OnLine(s[i])]
OffLines ==
    LET s == SelectSeq(Processed(args.off, "turn_off"), InRange)
    IN  [i \in 1..Len(s) |-> OffLine(s[i])]
IsWarning(e) == e[1] = "No such outlet: {}"
Warned ==
    LET w == SelectSeq(out, IsWarning)
    IN  [i \in 1..Len(w) |-> w[i][2]]
C6_RangeCheck ==
    (logins = 1 /\ number_of_outlets.exc = "none") =>
        /\ SetLinesSent = OnLines \o OffLines
        /\ Warned = SelectSeq(args.on, OutOfRange) \o SelectSeq(args.off, OutOfRange)
        /\ pc = "exit" => (exitStatus = 0 /\ ~args.moreOn /\ ~args.moreOff)
C6_Witness ==
    /\ pc = "exit" /\ exitStatus = 0
    /\ args.on = <<25, 24>> /\ args.off = <<>>
    /\ SetLinesSent = <<OnLine(24)>>
    /\ Warned = <<25>>

\* C7: logout() on a session that is not logged in raises nothing, writes
\* nothing and closes nothing; and no more `quit` is written than logins
\* succeeded.
LogoutNotLoggedIn ==
    (pc = "logout" /\ ~_logged_in /\ pc' # "logout") =>
        /\ pc' = "api" /\ exc' = "none"
        /\ sent' = sent
        /\ openChannels' = openChannels /\ openClients' = openClients
        /\ ~_logged_in'
C7_LogoutGuarded == [](QuitsSent <= logins) /\ [][LogoutNotLoggedIn]_vars
C7_Witness ==
    /\ pc = "api" /\ calls = 3
    /\ logins = 1 /\ QuitsSent = 1
    /\ out = <<<<"Not logged in.">>>>
    /\ openChannels = {}

\* C8: once logout() has written `quit`, the program gets to close the
\* channel and the client by steps of its own, whether the device answers
\* `quit` or not.
QuitWritten == QuitsSent > 0
Released ==
    /\ _channel # <<>> /\ _channel[1] \notin openChannels
    /\ _client # <<>> /\ _client[1] \notin openClients
C8_ReleaseNeedsNoReply ==
    (QuitWritten /\ ~Released /\ pc # "exit") => ENABLED (Main \/ Method)

\* C9: when the connection fails in one of the four ways handled, login()
\* returns False after that one attempt, no shell is asked for, no prompt read
\* and no command written, the session is not logged in, and the process
\* exits with a status that is not 0.
IsConnectFailure(e) == e[1] = "connect failed"
C9_ConnectFailureIsTerminal ==
    (SelectSeq(out, IsConnectFailure) # <<>>) =>
        /\ Len(out) = 1 /\ out[1][2] \in {"timeout", "badhostkey", "auth", "ssh"}
        /\ result = "False" /\ exc = "none"
        /\ pc = "exit" /\ exitStatus # 0 /\ exitStatus # -1
        /\ conns = 0 /\ openChannels = {} /\ openClients = {}
        /\ _channel = <<>> /\ _client = <<>> /\ _prompt = <<>> /\ _info = <<>>
        /\ ~_logged_in
        /\ sent = <<>>
C9_Witness ==
    /\ out = <<<<"connect failed", "badhostkey">>>>
    /\ pc = "exit" /\ exitStatus = 1

\* C10: after a successful login number_of_outlets() returns an integer that
\* is at least 1.
C10_OutletCountPositive ==
    logins > 0 => (number_of_outlets.exc = "none" /\ number_of_outlets.val >= 1)

(***************************************************************************)
(* The three validators on their own: a validator is called with an        *)
(* argument, None (<<>>) or a str (<<s>>), and returns True or False.      *)
(***************************************************************************)
\* lines 46-49 and 53-56: re.match raises TypeError on None, which the
\* validator catches to return False; line 40: None in supported is False
CallValidator(which, arg) ==
    IF arg = <<>> THEN FALSE
    ELSE CASE which = "version" -> _is_version_ok(arg[1])
           [] which = "serial" -> _is_serial_ok(arg[1])
           [] OTHER -> _is_part_number_ok(arg[1])
Validators == {"version", "serial", "part"}

\* the characters tried at a place of a value
Separators == {".", "x", "5", LF}
Leads == {"0", "9", "a", "A"}
Suffixes == {<<>>, <<"z">>, <<"1">>, <<LF>>}
Lower(s) ==
    [i \in 1..Len(s) |->
        CASE s[i] = "E" -> "e" [] s[i] = "I" -> "i" [] s[i] = "L" -> "l"
          [] s[i] = "B" -> "b" [] s[i] = "M" -> "m" [] s[i] = "H" -> "h"
          [] s[i] = "A" -> "a" [] s[i] = "C" -> "c" [] s[i] = "D" -> "d"
          [] s[i] = "F" -> "f" [] OTHER -> s[i]]
VersionInputs ==
    {<<a, "1", s1, "2", "3", s2, "4", "5", "6", "7">> \o t :
        a \in Leads, s1 \in Separators, s2 \in Separators, t \in Suffixes}
SerialInputs ==
    {<<a, "B", "1", "2", "C", "D", "3", "4", "E", b>> \o t :
        a \in Leads, b \in {"F", "f", "7", "-"}, t \in Suffixes}
PartInputs ==
    UNION {{pn, Lower(pn), SubSeq(pn, 1, 5), pn \o <<"0">>, <<" ">> \o pn, Tail(pn)} :
            pn \in supported}
ShortInputs ==
    {<<>>, <<"a", "b", "c">>, <<"S", "H", "O", "R", "T">>, <<"X", "X", "9", "9">>,
     <<"0", "1", ".", "2", "3", ".", "4", "5", "6">>}
ValidatorArgs ==
    {<<>>} \cup {<<s>> : s \in VersionInputs \cup SerialInputs \cup PartInputs \cup ShortInputs}

InitValidators ==
    /\ InitObject /\ caller = "api" /\ splitsLeft = 0
    /\ pc = "api"
ValidatorCall ==
    /\ pc = "api" /\ ctx = "none"
    /\ \E which \in Validators, arg \in ValidatorArgs :
        /\ ctx' = which
        /\ params' = arg
        /\ result' = IF CallValidator(which, arg) THEN "True" ELSE "False"
    /\ UNCHANGED <<_channel, _client, _logged_in, _prompt, _info, caller, pc, args,
                   num, option, send, exitStatus, exc, calls, out, conns,
                   openChannels, openClients, devPrompt, wire, inbuf, splitsLeft,
                   sent, answered, lastPayload, lastReply, validated, logins>>
NextValidators == ValidatorCall
SpecValidators == InitValidators /\ [][NextValidators]_vars

\* C11: _is_version_ok(v) is True exactly when v is a str that starts with
\* two digits, a dot, two digits, a dot and four digits.
IsDigit(c) == c \in {"0", "1", "2", "3", "4", "5", "6", "7", "8", "9"}
StartsWithVersion(s) ==
    /\ Len(s) >= 10
    /\ \A i \in {1, 2, 4, 5, 7, 8, 9, 10} : IsDigit(s[i])
    /\ s[3] = "." /\ s[6] = "."
C11_VersionValidator ==
    ctx = "version" =>
        (result = "True" <=> (params # <<>> /\ StartsWithVersion(params[1])))

\* C12: _is_part_number_ok(pn) is True exactly when pn is, as a whole and
\* in this case, one of EILB13, EILB14, EILB15, EMIH28, EMAB04.
FiveCodes ==
    {<<"E", "I", "L", "B", "1", "3">>, <<"E", "I", "L", "B", "1", "4">>,
     <<"E", "I", "L", "B", "1", "5">>, <<"E", "M", "I", "H", "2", "8">>,
     <<"E", "M", "A", "B", "0", "4">>}
C12_PartNumberValidator ==
    ctx = "part" =>
        (result = "True" <=> (params # <<>> /\ params[1] \in FiveCodes))
C12_Witness ==
    /\ ctx = "part" /\ params = <<<<"E", "M", "I", "H", "2", "8">>>>
    /\ result = "True"

\* C13: when none of --on, --off, --info is given the process exits with
\* status 0, having made no connection, attempted no login and written
\* nothing.
NothingAsked ==
    /\ pc # "start"
    /\ ~args.info /\ args.on = <<>> /\ args.off = <<>>
    /\ ~args.moreOn /\ ~args.moreOff
C13_NoOpExit ==
    NothingAsked =>
        /\ pc = "exit" /\ exitStatus = 0 /\ exc = "none"
        /\ conns = 0 /\ openChannels = {} /\ openClients = {}
        /\ _client = <<>> /\ _channel = <<>> /\ ~_logged_in
        /\ sent = <<>> /\ out = <<>> /\ logins = 0
C13_Witness == NothingAsked /\ pc = "exit" /\ exitStatus = 0

\* C14: a run of the command-line program that has logged in ends with
\* status 0, `quit` being the last command written and the channel and the
\* client closed.  The exit state is final: a run that has reached it in
\* another way never completes as claimed, however the device answers.
LastSent == sent[Len(sent)].line
C14_NormalCompletion ==
    (caller = "cli" /\ logins > 0 /\ pc = "exit") =>
        /\ exitStatus = 0
        /\ sent # <<>> /\ LastSent = <<"q", "u", "i", "t", CR>>
        /\ Released

\* C15: no command is written before the prompt is captured; writes and
\* reads alternate, every write being read for once before the next write;
\* and at most one command is in flight: no command is written while the
\* response to the one before has not been answered and read.
TagsOf(tagged) == {tagged[i][2] : i \in 1..Len(tagged)}
InFlight ==
    {k \in 1..Len(sent) : k > answered \/ k \in TagsOf(wire) \/ k \in TagsOf(inbuf)}
WritesAndReadsAlternate ==
    IF pc = "recv" THEN lastReply.cmd = Len(sent) - 1 ELSE lastReply.cmd = Len(sent)
C15_OneInFlight ==
    /\ sent # <<>> => _prompt # <<>>
    /\ WritesAndReadsAlternate
    /\ Cardinality(InFlight) <= 1

\* C16: the first four commands written are the gets of the serial number,
\* the part number, the version and the outlet count, in this order and each
\* once; no validator runs and no set or quit is written before all four
\* are written.
FourGets ==
    <<<<"g", "e", "t", " ", "P", "D", "U", ".", "P", "o", "w", "e", "r", "S", "u", "m", "m", "a", "r", "y", ".", "i", "S", "e", "r", "i", "a", "l", "N", "u", "m", "b", "e", "r", CR>>,
      <<"g", "e", "t", " ", "P", "D", "U", ".", "P", "o", "w", "e", "r", "S", "u", "m", "m", "a", "r", "y", ".", "i", "P", "a", "r", "t", "N", "u", "m", "b", "e", "r", CR>>,
      <<"g", "e", "t", " ", "P", "D", "U", ".", "P", "o", "w", "e", "r", "S", "u", "m", "m", "a", "r", "y", ".", "i", "V", "e", "r", "s", "i", "o", "n", CR>>,
      <<"g", "e", "t", " ", "P", "D", "U", ".", "O", "u", "t", "l", "e", "t", "S", "y", "s", "t", "e", "m", ".", "O", "u", "t", "l", "e", "t", ".", "C", "o", "u", "n", "t", CR>>>>
IsGetEntry(e) == IsPrefix(<<"g", "e", "t", " ">>, e.line)
C16_DiscoveryOrder ==
    /\ \A i \in 1..Len(sent) : i <= 4 => sent[i].line = FourGets[i]
    /\ \A i \in 1..Len(sent) : i > 4 => ~IsGetEntry(sent[i])
    /\ (pc = "validate" \/ validated \/ _info # <<>>) => Len(sent) >= 4
C16_Witness ==
    /\ Len(sent) = 6 /\ validated
    /\ IsSetEntry(sent[5]) /\ IsQuitEntry(sent[6])
    /\ pc = "exit" /\ exitStatus = 0

\* C17: on a session whose channel is open, turn_on_outlet(n) writes one
\* line, `set PDU.OutletSystem.Outlet[n].DelayBeforeStartup 0` and a carriage
\* return, and turn_off_outlet(n) one line, the same with DelayBeforeShutdown;
\* this for every n, in the range of the outlets or not, and the method
\* returns after its one read having written nothing more.
Decimal(n) ==
    CASE n = -1 -> <<"-", "1">> [] n = 0 -> <<"0">> [] n = 1 -> <<"1">>
      [] n = 24 -> <<"2", "4">> [] n = 25 -> <<"2", "5">>
SetOutletHead == <<"s", "e", "t", " ", "P", "D", "U", ".", "O", "u", "t", "l", "e", "t", "S", "y", "s", "t", "e", "m", ".", "O", "u", "t", "l", "e", "t", "[">>
StartupTail == <<"]", ".", "D", "e", "l", "a", "y", "B", "e", "f", "o", "r", "e", "S", "t", "a", "r", "t", "u", "p", " ", "0">> \o <<CR>>
ShutdownTail == <<"]", ".", "D", "e", "l", "a", "y", "B", "e", "f", "o", "r", "e", "S", "h", "u", "t", "d", "o", "w", "n", " ", "0">> \o <<CR>>
StartupLine(n) == SetOutletHead \o Decimal(n) \o StartupTail
ShutdownLine(n) == SetOutletHead \o Decimal(n) \o ShutdownTail
ChannelOpen == _channel # <<>> /\ _channel[1] \in openChannels
OutletCallWrites ==
    /\ (pc = "turn_on" /\ ChannelOpen /\ pc' # "turn_on") =>
            (sent' = Append(sent, [line |-> StartupLine(num), validated |-> validated,
                                   channel |-> _channel[1]]) /\ pc' = "recv")
    /\ (pc = "turn_off" /\ ChannelOpen /\ pc' # "turn_off") =>
            (sent' = Append(sent, [line |-> ShutdownLine(num), validated |-> validated,
                                   channel |-> _channel[1]]) /\ pc' = "recv")
    /\ (pc = "recv" /\ ctx \in {"turn_on", "turn_off"} /\ pc' # "recv") =>
            (sent' = sent /\ pc' = "api")
C17_OutletLines == [][OutletCallWrites]_vars
C17_Witness ==
    /\ pc = "api" /\ ctx = "turn_off" /\ num = 25
    /\ _info # <<>> /\ number_of_outlets = Ok(24)
    /\ Len(sent) = 5 /\ LastSent = ShutdownLine(25)
    /\ exc = "none"

\* C18: in a run of the command-line program every power-on line is written
\* before every power-off line; the power-on lines are those of numbers of
\* --on in the order given, the power-off lines those of numbers of --off
\* in the order given; `quit` is written after them all, nothing is written
\* after it, and a run that ends with status 0 after a login has written it.
IsOnEntry(e) == \E n \in OutletArgs : e.line = StartupLine(n)
IsOffEntry(e) == \E n \in OutletArgs : e.line = ShutdownLine(n)
InOrder(S) == [i \in 1..Cardinality(S) |-> CHOOSE x \in S : Cardinality({y \in S : y < x}) = i - 1]
\* the sequences made of some of the elements of given, in their order
Picked(given) ==
    {[i \in 1..Cardinality(S) |-> given[InOrder(S)[i]]] : S \in SUBSET (1..Len(given))}
StartupLines(nums) == [i \in 1..Len(nums) |-> StartupLine(nums[i])]
ShutdownLines(nums) == [i \in 1..Len(nums) |-> ShutdownLine(nums[i])]
C18_CommandOrder ==
    /\ \A i, j \in 1..Len(sent) : (IsOffEntry(sent[i]) /\ IsOnEntry(sent[j])) => j < i
    /\ \E nums \in Picked(args.on) :
          LinesOf(SelectSeq(sent, IsOnEntry)) = StartupLines(nums)
    /\ \E nums \in Picked(args.off) :
          LinesOf(SelectSeq(sent, IsOffEntry)) = ShutdownLines(nums)
    /\ \A i \in 1..Len(sent) : IsSetEntry(sent[i]) => (IsOnEntry(sent[i]) \/ IsOffEntry(sent[i]))
    /\ \A i \in 1..Len(sent) : IsQuitEntry(sent[i]) => i = Len(sent)
    /\ (pc = "exit" /\ exitStatus = 0 /\ logins > 0) => (sent # <<>> /\ IsQuitEntry(sent[Len(sent)]))
C18_Witness ==
    /\ pc = "exit" /\ exitStatus = 0
    /\ args.on = <<24>> /\ args.off = <<1>>
    /\ Len(sent) = 7
    /\ sent[5].line = StartupLine(24) /\ sent[6].line = ShutdownLine(1)
    /\ IsQuitEntry(sent[7])

\* C19: whenever _logged_in is True the prompt has been captured, the
\* channel and the client are set, and _info is populated with an identity
\* that passes the three validators; and login() returns True only into
\* such a state.
LoggedInState ==
    /\ _logged_in
    /\ _prompt # <<>> /\ _prompt[1] # <<>>
    /\ _channel # <<>> /\ _client # <<>>
    /\ _info # <<>> /\ DOMAIN _info[1] = Range(objects)
    /\ AllValid(_info[1])
LoginReturnsTrue == logins' = logins + 1
C19_LoggedInInvariant ==
    /\ [](_logged_in => LoggedInState)
    /\ [][LoginReturnsTrue => (result' = "True" /\ LoggedInState')]_vars
C19_Witness ==
    /\ pc = "api" /\ calls = 1 /\ result = "True"
    /\ logins = 1 /\ LoggedInState

\* C20: when logout() returns, no channel is left open: a login that did
\* not succeed has left none behind, or the logout() that follows has
\* released it.
LogoutReturns == pc \in {"logout", "logout_close"} /\ pc' = "api"
C20_NoChannelLeak == [][LogoutReturns => openChannels' = {}]_vars

=============================================================================
